---- MODULE Spec2Model ----
(***************************************************************************)
(* Model of the "monitoring" OpenTelemetry exporter.                       *)
(*                                                                         *)
(* The repository holds several drafts of the same exporter.  Two of them  *)
(* send HTTP requests and are modelled here:                               *)
(*   draft "endpoints": src/unnamed/part_001 (global endpoint + per-signal *)
(*                      overrides, summary payloads, doPOST)               *)
(*   draft "urls":      src/opentelemetry-exporter-monitoring.go, second   *)
(*                      half (three plain URLs, OTLP/JSON payloads,        *)
(*                      postJSON)                                          *)
(* Strings are sequences of characters; a header map is a function from    *)
(* header names to values; a telemetry tree is a sequence of resource      *)
(* groups, each a sequence of scope groups, each a sequence of items.      *)
(***************************************************************************)
EXTENDS Integers, Sequences, FiniteSets, TLC

VARIABLES
    draft,      \* which draft of the exporter is built
    cfg,        \* the Config handed to the factory
    signal,     \* the pipeline built (createTraces/Metrics/LogsExporter)
    exp,        \* the monitoringExporter (or the construction error)
    items,      \* the delivery items of the pipeline's queue/retry helper
    call        \* the last push or doPOST call: its input and its result

vars == <<draft, cfg, signal, exp, items, call>>

(***************************************************************************)
(* Bounds of the model.                                                    *)
(***************************************************************************)
MaxLen == 2

Min(a, b) == IF a < b THEN a ELSE b

Drafts == {"endpoints", "urls"}

Signals == {"traces", "metrics", "logs"}

(***************************************************************************)
(* Strings.                                                                *)
(***************************************************************************)
Chars == {"/", " ", "h"}

\* all strings over alphabet a of length at most n
StringsOver(a, n) == UNION {[1..k -> a] : k \in 0..n}

\* strings.TrimRight(s, "/"): drop every trailing "/"
RECURSIVE TrimRight(_, _)
TrimRight(s, c) ==
    IF Len(s) > 0 /\ s[Len(s)] = c
    THEN TrimRight(SubSeq(s, 1, Len(s) - 1), c)
    ELSE s

RECURSIVE TrimLeft(_, _)
TrimLeft(s, c) ==
    IF Len(s) > 0 /\ s[1] = c THEN TrimLeft(Tail(s), c) ELSE s

\* strings.TrimSpace(s): drop leading and trailing white space
TrimSpace(s) == TrimRight(TrimLeft(s, " "), " ")

\* the literal "/v1/<signal>"
SignalPath(s) == <<"/", "v", "1", "/", s>>

(***************************************************************************)
(* Configuration and construction.                                         *)
(***************************************************************************)
EmptyMap == [k \in {} |-> ""]

JSON == "application/json"

\* part_001: h := {"Content-Type": json, "Accept": json}
DefaultHeaders == [k \in {"Content-Type", "Accept"} |-> JSON]

\* part_001: for k, v := range cfg.Headers { h[k] = v }  (Go map keys are
\* compared byte by byte, so "content-type" is another key than "Content-Type")
MergeHeaders(d, c) ==
    [k \in DOMAIN d \cup DOMAIN c |-> IF k \in DOMAIN c THEN c[k] ELSE d[k]]

\* part_001: the URL of one signal: the trimmed specific endpoint, or
\* base + "/v1/<signal>" when that is empty and base is not
ResolveURL_NoTrim(specific, base, s) ==
    IF specific = <<>> /\ base # <<>> THEN base \o SignalPath(s) ELSE specific

ResolveURL(specific, base, s) ==
    LET u == TrimSpace(specific)
    IN  IF u = <<>> /\ base # <<>> THEN base \o SignalPath(s) ELSE u

\* part_001 line 122: construction fails when ANY of the three is empty
MissingEndpoints(tURL, mURL, lURL) ==
    tURL = <<>> \/ mURL = <<>> \/ lURL = <<>>

\* second draft, line 233: construction fails when ALL three are empty
NoURLs(tURL, mURL, lURL) ==
    tURL = <<>> /\ mURL = <<>> /\ lURL = <<>>

NoExporter ==
    [status |-> "none", tracesURL |-> <<>>, metricsURL |-> <<>>,
     logsURL |-> <<>>, headers |-> EmptyMap]

\* part_001 newMonitoringExporter.  On failure no exporter is returned; the
\* three resolved URLs are kept because the error message prints them.
newMonitoringExporter(c) ==
    LET h    == MergeHeaders(DefaultHeaders, c.Headers)
        base == TrimRight(c.Endpoint, "/")
        tURL == ResolveURL(c.TracesEndpoint, base, "traces")
        mURL == ResolveURL(c.MetricsEndpoint, base, "metrics")
        lURL == ResolveURL(c.LogsEndpoint, base, "logs")
    IN  IF MissingEndpoints(tURL, mURL, lURL)
        THEN [status |-> "error", tracesURL |-> tURL, metricsURL |-> mURL,
              logsURL |-> lURL, headers |-> EmptyMap]
        ELSE [status |-> "ok", tracesURL |-> tURL, metricsURL |-> mURL,
              logsURL |-> lURL, headers |-> h]

\* second draft newMonitoringExporter: the three URLs and the header map of
\* the configuration, as they are (TracesURL/MetricsURL/LogsURL are held in
\* the fields TracesEndpoint/MetricsEndpoint/LogsEndpoint of cfg)
newMonitoringExporterURLs(c) ==
    IF NoURLs(c.TracesEndpoint, c.MetricsEndpoint, c.LogsEndpoint)
    THEN [status |-> "error", tracesURL |-> <<>>, metricsURL |-> <<>>,
          logsURL |-> <<>>, headers |-> EmptyMap]
    ELSE [status |-> "ok", tracesURL |-> c.TracesEndpoint,
          metricsURL |-> c.MetricsEndpoint, logsURL |-> c.LogsEndpoint,
          headers |-> c.Headers]

NewExporter(d, c) ==
    IF d = "endpoints" THEN newMonitoringExporter(c)
    ELSE newMonitoringExporterURLs(c)

URLOf(e, s) ==
    CASE s = "traces"  -> e.tracesURL
      [] s = "metrics" -> e.metricsURL
      [] s = "logs"    -> e.logsURL

NoCall ==
    [op |-> "none", tree |-> <<>>, outcome |-> [kind |-> "none", code |-> 0],
     res |-> [sent |-> FALSE,
              req |-> [url |-> <<>>, body |-> <<>>, headers |-> EmptyMap],
              err |-> FALSE, permanent |-> FALSE]]

\* createTracesExporter / createMetricsExporter / createLogsExporter: build
\* the exporter; on error return it, else hand push<Signal> to the helper
CreateExporter(s) ==
    /\ exp.status = "none"
    /\ exp' = NewExporter(draft, cfg)
    /\ signal' = s
    /\ UNCHANGED <<draft, cfg, items, call>>

(***************************************************************************)
(* Specification of construction alone: every configuration within the     *)
(* bounds, one factory call.                                               *)
(***************************************************************************)
SpecificStrings == StringsOver({" ", "h"}, MaxLen)

ResolveConfigs(d) ==
    [Endpoint : IF d = "endpoints" THEN StringsOver(Chars, MaxLen) ELSE {<<>>},
     TracesEndpoint : SpecificStrings,
     MetricsEndpoint : SpecificStrings,
     LogsEndpoint : SpecificStrings,
     Headers : {EmptyMap},
     RetryEnabled : {TRUE}]

InitResolve ==
    /\ draft \in Drafts
    /\ cfg \in ResolveConfigs(draft)
    /\ signal = "none"
    /\ exp = NoExporter
    /\ items = <<>>
    /\ call = NoCall

NextResolve == \E s \in Signals : CreateExporter(s)

SpecResolve == InitResolve /\ [][NextResolve]_vars

Constructed == exp.status # "none"

Absent(u) == u = <<>>

\* C1 (as claimed): construction fails if and only if all three resolved
\* endpoints are absent; with at least one resolved it succeeds.
C1_ErrorIffAllAbsent ==
    Constructed =>
        ((exp.status = "error") <=>
         (Absent(exp.tracesURL) /\ Absent(exp.metricsURL) /\ Absent(exp.logsURL)))

\* r is s without its leading and trailing blanks
IsSpaceTrimOf(r, s) ==
    /\ r # <<>> => (r[1] # " " /\ r[Len(r)] # " ")
    /\ \E i \in 0..Len(s) :
          /\ i + Len(r) <= Len(s)
          /\ \A k \in 1..Len(s) :
                IF k <= i \/ k > i + Len(r) THEN s[k] = " " ELSE s[k] = r[k - i]

\* b is e without its trailing slashes
IsSlashStripOf(b, e) ==
    /\ b # <<>> => b[Len(b)] # "/"
    /\ Len(b) <= Len(e)
    /\ \A k \in 1..Len(e) : IF k <= Len(b) THEN e[k] = b[k] ELSE e[k] = "/"

SpecificOf(c, s) ==
    CASE s = "traces"  -> c.TracesEndpoint
      [] s = "metrics" -> c.MetricsEndpoint
      [] s = "logs"    -> c.LogsEndpoint

\* the shape of a resolved URL: derivedWhen says when the global endpoint is
\* used for a signal whose own endpoint is blank
ResolvedAs(s, derivedWhen) ==
    LET r == URLOf(exp, s)
        t == SpecificOf(cfg, s)
    IN  \/ r # <<>> /\ IsSpaceTrimOf(r, t)
        \/ /\ IsSpaceTrimOf(<<>>, t)
           /\ IF derivedWhen
              THEN \E n \in 0..Len(cfg.Endpoint) :
                      /\ IsSlashStripOf(SubSeq(cfg.Endpoint, 1, n), cfg.Endpoint)
                      /\ r = SubSeq(cfg.Endpoint, 1, n) \o SignalPath(s)
              ELSE r = <<>>

\* C2 (as claimed): the resolved endpoint of a signal is its trimmed own
\* endpoint if non-empty, else trimRight(E, "/") + "/v1/<s>" if E is
\* non-empty (also when E is made of "/" only), else absent.
C2_DerivedWhenGlobalNonEmpty ==
    (Constructed /\ draft = "endpoints") =>
        \A s \in Signals : ResolvedAs(s, cfg.Endpoint # <<>>)

\* C2 (amended): the resolved endpoint of a signal is its trimmed own
\* endpoint if non-empty, else trimRight(E, "/") + "/v1/<s>" if
\* trimRight(E, "/") is non-empty, else absent (so a global endpoint made of
\* "/" only resolves nothing).
C2_DerivedWhenBaseNonEmpty ==
    (Constructed /\ draft = "endpoints") =>
        \A s \in Signals :
            ResolvedAs(s, \E k \in 1..Len(cfg.Endpoint) : cfg.Endpoint[k] # "/")

C2_Witness ==
    /\ Constructed /\ draft = "endpoints"
    /\ cfg.Endpoint = <<"/">>
    /\ cfg.TracesEndpoint = <<" ">> /\ exp.tracesURL = <<>>
    /\ cfg.MetricsEndpoint = <<" ", "h">> /\ exp.metricsURL = <<"h">>

(***************************************************************************)
(* HTTP transport: doPOST (part_001) and postJSON (second draft).          *)
(***************************************************************************)
\* net/http Header.Set stores a value under the canonical form of its key
Canon(k) ==
    CASE k = "content-type" -> "Content-Type"
      [] k = "accept"       -> "Accept"
      [] OTHER              -> k

\* req.Header.Set(k, v)
HeaderSet(hdr, k, v) ==
    [n \in DOMAIN hdr \cup {Canon(k)} |-> IF n = Canon(k) THEN v ELSE hdr[n]]

\* for k, v := range m.headers { req.Header.Set(k, v) }, the keys met in
\* the order given (Go leaves the order of a map's iteration unspecified)
RECURSIVE SetAll(_, _, _)
SetAll(hdr, h, order) ==
    IF order = <<>> THEN hdr
    ELSE SetAll(HeaderSet(hdr, Head(order), h[Head(order)]), h, Tail(order))

\* the orders in which the keys of map h can be iterated
Orders(h) ==
    {o \in [1..Cardinality(DOMAIN h) -> DOMAIN h] :
        \A i, j \in DOMAIN o : i # j => o[i] # o[j]}

\* resp.StatusCode < 200 || resp.StatusCode >= 300
BadStatus_Above300(code) == code < 200 \/ code > 300

BadStatus_Never(code) == FALSE

BadStatus(code) == code < 200 \/ code >= 300

NoReq == [url |-> <<>>, body |-> <<>>, headers |-> EmptyMap]

\* the result of one push or POST: whether a request was issued, the
\* request, the error returned (err), and whether that error is marked
\* permanent for the retry helper (the code never wraps one as permanent)
Returned(sent, req, err) ==
    [sent |-> sent, req |-> req, err |-> err, permanent |-> FALSE]

\* what the destination does with one request: the request cannot be built
\* ("reqerr"), the connection fails or times out ("neterr"), or a response
\* with a status code arrives
StatusCodes == {199, 200, 204, 299, 300, 302, 404, 500, 503}

Status(c) == [kind |-> "status", code |-> c]

ReqErr == [kind |-> "reqerr", code |-> 0]

NetErr == [kind |-> "neterr", code |-> 0]

Outcomes == {ReqErr, NetErr} \cup {Status(c) : c \in StatusCodes}

\* the request built with a first header map hdr0, then sent
Transport(hdr0, e, url, body, order, outcome) ==
    IF outcome.kind = "reqerr" THEN Returned(FALSE, NoReq, TRUE)
    ELSE LET req == [url |-> url, body |-> body,
                     headers |-> SetAll(hdr0, e.headers, order)]
         IN  IF outcome.kind = "neterr" THEN Returned(TRUE, req, TRUE)
             ELSE Returned(TRUE, req, BadStatus(outcome.code))

\* part_001 doPOST
doPOST(e, url, body, order, outcome) ==
    Transport(EmptyMap, e, url, body, order, outcome)

\* second draft postJSON: Content-Type is set first, then the headers
postJSON(e, url, body, order, outcome) ==
    Transport([k \in {"Content-Type"} |-> JSON], e, url, body, order, outcome)

(***************************************************************************)
(* Payload encoders of part_001.                                           *)
(* A map built by the code is a function from keys to values; json.Marshal *)
(* of a value v is the tagged value <<"json", v>>.                         *)
(***************************************************************************)
Marshal(v) == <<"json", v>>

\* out[key] = v on a Go map
MapPut(m, k, v) ==
    [x \in DOMAIN m \cup {k} |-> IF x = k THEN v ELSE m[x]]

\* valueToIface: a pcommon.Value [type, v] as a plain value; a slice is a
\* sequence of values, a map a sequence of [k, v] entries with distinct keys
RECURSIVE valueToIface(_)
RECURSIVE MapToIface(_, _, _)
MapToIface(entries, i, obj) ==
    IF i > Len(entries) THEN obj
    ELSE MapToIface(entries, i + 1,
                    MapPut(obj, entries[i].k, valueToIface(entries[i].v)))

valueToIface(v) ==
    CASE v.type = "str"    -> [kind |-> "string", val |-> v.v]
      [] v.type = "int"    -> [kind |-> "int64", val |-> v.v]
      [] v.type = "double" -> [kind |-> "float64", val |-> v.v]
      [] v.type = "bool"   -> [kind |-> "bool", val |-> v.v]
      [] v.type = "bytes"  -> [kind |-> "bytes", val |-> v.v]
      [] v.type = "slice"  ->
            [kind |-> "array",
             val |-> [i \in 1..Len(v.v) |-> valueToIface(v.v[i])]]
      [] v.type = "map"    ->
            [kind |-> "object", val |-> MapToIface(v.v, 1, EmptyMap)]
      [] OTHER             -> [kind |-> "nil", val |-> <<>>]

\* the rename table pushMetrics hands to attrsToMap
MetricRename ==
    [k \in {"service.name", "deployment.environment", "cloud.region"} |->
        CASE k = "service.name"           -> "service"
          [] k = "deployment.environment" -> "environment"
          [] k = "cloud.region"           -> "region"]

\* attrsToMap: attrs.Range visits the entries in stored order; rename is a
\* function (the empty one for nil)
RECURSIVE AttrsLoop(_, _, _, _)
AttrsLoop(attrs, rename, i, out) ==
    IF i > Len(attrs) THEN out
    ELSE LET k   == attrs[i].k
             key == IF k \in DOMAIN rename THEN rename[k] ELSE k
         IN  AttrsLoop(attrs, rename, i + 1,
                       MapPut(out, key, valueToIface(attrs[i].v)))

attrsToMap(attrs, rename) == AttrsLoop(attrs, rename, 1, EmptyMap)

(* traces: a tree is a sequence of resource groups, each a sequence of     *)
(* scopes, each a sequence of span names                                   *)
SampleCap == 10

RECURSIVE SpansLoop(_, _, _)
SpansLoop(spans, k, names) ==
    IF k <= Len(spans) /\ Len(names) < SampleCap
    THEN SpansLoop(spans, k + 1, Append(names, spans[k]))
    ELSE names

RECURSIVE ScopeSpansLoop(_, _, _)
ScopeSpansLoop(ss, j, names) ==
    IF j <= Len(ss) /\ Len(names) < SampleCap
    THEN ScopeSpansLoop(ss, j + 1, SpansLoop(ss[j], 1, names))
    ELSE names

RECURSIVE ResourceSpansLoop(_, _, _)
ResourceSpansLoop(rs, i, names) ==
    IF i <= Len(rs) /\ Len(names) < SampleCap
    THEN ResourceSpansLoop(rs, i + 1, ScopeSpansLoop(rs[i], 1, names))
    ELSE names

RECURSIVE SumLen(_)
SumLen(seqs) == IF seqs = <<>> THEN 0 ELSE Len(Head(seqs)) + SumLen(Tail(seqs))

RECURSIVE SpanCount(_)
SpanCount(td) == IF td = <<>> THEN 0 ELSE SumLen(Head(td)) + SpanCount(Tail(td))

\* names := the first spans' names, at most 10
SampleNames_CapPerScope(td) ==
    LET RECURSIVE PerScope(_, _)
        PerScope(scopes, names) ==
            IF scopes = <<>> THEN names
            ELSE PerScope(Tail(scopes),
                          names \o SubSeq(Head(scopes), 1,
                                          Min(SampleCap, Len(Head(scopes)))))
        RECURSIVE PerResource(_, _)
        PerResource(rs, names) ==
            IF rs = <<>> THEN names
            ELSE PerResource(Tail(rs), PerScope(Head(rs), names))
    IN  PerResource(td, <<>>)

SampleNames(td) == ResourceSpansLoop(td, 1, <<>>)

TracesPayload(td) ==
    [traces |-> [spans |-> SpanCount(td), sample_names |-> SampleNames(td)]]

\* part_001 pushTraces
pushTraces(e, td, order, outcome) ==
    doPOST(e, e.tracesURL, Marshal(TracesPayload(td)), order, outcome)

(* metrics: a tree is a sequence of resource groups [attrs, scopes], a     *)
(* scope a sequence of metrics [name, type, dps], a data point             *)
(* [ts, vtype, val]                                                        *)
numberValue(dp) ==
    IF dp.vtype = "int" THEN [kind |-> "int64", val |-> dp.val]
    ELSE [kind |-> "float64", val |-> dp.val]

\* dps.At(dps.Len() - 1): the data point stored last
PickPoint(dps) == dps[Len(dps)]

\* the loop over the metrics of one scope; acc is [values, ts]
RECURSIVE MetricsLoop(_, _, _)
MetricsLoop(ms, k, acc) ==
    IF k > Len(ms) THEN acc
    ELSE LET mx == ms[k]
         IN  MetricsLoop(ms, k + 1,
                IF mx.type \in {"gauge", "sum"} /\ Len(mx.dps) > 0
                THEN LET dp == PickPoint(mx.dps)
                     IN  [values |-> MapPut(acc.values, mx.name, numberValue(dp)),
                          ts |-> IF dp.ts > acc.ts THEN dp.ts ELSE acc.ts]
                ELSE acc)

RECURSIVE ScopeMetricsLoop(_, _, _)
ScopeMetricsLoop(sms, j, acc) ==
    IF j > Len(sms) THEN acc
    ELSE ScopeMetricsLoop(sms, j + 1, MetricsLoop(sms[j], 1, acc))

\* the entry emitted for one resource group
ResourceMetricsEntry(rm) ==
    LET props == attrsToMap(rm.attrs, MetricRename)
        acc   == ScopeMetricsLoop(rm.scopes, 1, [values |-> EmptyMap, ts |-> 0])
    IN  [timestamp |-> acc.ts, properties |-> props, values |-> acc.values]

MetricsPayload(md) ==
    [metrics |-> [i \in 1..Len(md) |-> ResourceMetricsEntry(md[i])]]

\* part_001 pushMetrics
pushMetrics(e, md, order, outcome) ==
    doPOST(e, e.metricsURL, Marshal(MetricsPayload(md)), order, outcome)

(* logs: a tree is a sequence of resource groups [attrs, scopes], a scope  *)
(* a sequence of records [ts, severity, body, attrs].  A timestamp is a    *)
(* number below 2^63, which int64(lr.Timestamp()) leaves as it is.         *)
LogRecordEntry(lr, res) ==
    [timestamp |-> lr.ts, severity |-> lr.severity,
     body |-> valueToIface(lr.body),
     attrs |-> attrsToMap(lr.attrs, EmptyMap), resource |-> res]

RECURSIVE ScopeLogsLoop(_, _, _, _)
ScopeLogsLoop(sls, j, res, out) ==
    IF j > Len(sls) THEN out
    ELSE ScopeLogsLoop(sls, j + 1, res,
            out \o [k \in 1..Len(sls[j]) |-> LogRecordEntry(sls[j][k], res)])

\* the loop with res computed once, from the first resource group
RECURSIVE ResourceLogsLoop_FirstResource(_, _, _)
ResourceLogsLoop_FirstResource(rls, i, out) ==
    IF i > Len(rls) THEN out
    ELSE ResourceLogsLoop_FirstResource(rls, i + 1,
            ScopeLogsLoop(rls[i].scopes, 1,
                          attrsToMap(rls[1].attrs, EmptyMap), out))

RECURSIVE ResourceLogsLoop(_, _, _)
ResourceLogsLoop(rls, i, out) ==
    IF i > Len(rls) THEN out
    ELSE ResourceLogsLoop(rls, i + 1,
            ScopeLogsLoop(rls[i].scopes, 1,
                          attrsToMap(rls[i].attrs, EmptyMap), out))

LogsPayload(ld) == [logs |-> ResourceLogsLoop(ld, 1, <<>>)]

\* part_001 pushLogs
pushLogs(e, ld, order, outcome) ==
    doPOST(e, e.logsURL, Marshal(LogsPayload(ld)), order, outcome)

(***************************************************************************)
(* The push functions of the second draft: nothing is sent for a signal    *)
(* without URL; else the tree goes out as OTLP/JSON.                       *)
(***************************************************************************)
MarshalOTLP(tree) == <<"otlp", tree>>

\* if m.<signal>URL == "" { return nil }
SkipPush_Never(url) == FALSE

SkipPush(url) == url = <<>>

pushURLs(e, url, tree, order, outcome) ==
    IF SkipPush(url) THEN Returned(FALSE, NoReq, FALSE)
    ELSE postJSON(e, url, MarshalOTLP(tree), order, outcome)

\* push<Signal> of the draft built, as the helper calls it
Push(d, e, s, tree, order, outcome) ==
    IF d = "urls" THEN pushURLs(e, URLOf(e, s), tree, order, outcome)
    ELSE CASE s = "traces"  -> pushTraces(e, tree, order, outcome)
           [] s = "metrics" -> pushMetrics(e, tree, order, outcome)
           [] s = "logs"    -> pushLogs(e, tree, order, outcome)

(***************************************************************************)
(* One direct call of push<Signal> on the exporter built, as the helper    *)
(* makes it for one delivery attempt.                                      *)
(***************************************************************************)
PushDirect(order, outcome) ==
    /\ exp.status = "ok"
    /\ call.op = "pending"
    /\ call' = [call EXCEPT !.op = "push", !.outcome = outcome,
                   !.res = Push(draft, exp, signal, call.tree, order, outcome)]
    /\ UNCHANGED <<draft, cfg, signal, exp, items>>

\* a call about to be made with the given tree
Pending(tree) == [NoCall EXCEPT !.op = "pending", !.tree = tree]

\* createDefaultConfig of the draft (the endpoint written "h")
DefaultConfig(d) ==
    IF d = "endpoints"
    THEN [Endpoint |-> <<"h">>, TracesEndpoint |-> <<>>,
          MetricsEndpoint |-> <<>>, LogsEndpoint |-> <<>>,
          Headers |-> DefaultHeaders, RetryEnabled |-> TRUE]
    ELSE [Endpoint |-> <<>>,
          TracesEndpoint |-> <<"h">> \o SignalPath("traces"),
          MetricsEndpoint |-> <<"h">> \o SignalPath("metrics"),
          LogsEndpoint |-> <<"h">> \o SignalPath("logs"),
          Headers |-> [k \in {"Content-Type"} |-> JSON],
          RetryEnabled |-> TRUE]

InitEncode(trees) ==
    /\ draft \in Drafts
    /\ cfg = DefaultConfig(draft)
    /\ signal = "none"
    /\ exp = NoExporter
    /\ items = <<>>
    /\ call \in {Pending(t) : t \in trees}

EncodeOutcomes == {Status(200), Status(503), NetErr}

(***************************************************************************)
(* Traces: every tree shape within the bounds, its spans named by their    *)
(* place <<resource, scope, span>>.                                        *)
(***************************************************************************)
MaxGroups == 2

MaxSpans == 7

SpanCounts == {0, 3, MaxSpans}

SeqsUpTo(S, n) == UNION {[1..k -> S] : k \in 0..n}

TraceShapes == SeqsUpTo(SeqsUpTo(SpanCounts, MaxGroups), MaxGroups)

TraceTree(shape) ==
    [i \in 1..Len(shape) |->
        [j \in 1..Len(shape[i]) |->
            [k \in 1..shape[i][j] |-> <<i, j, k>>]]]

TraceTrees == {TraceTree(sh) : sh \in TraceShapes}

InitTraces == InitEncode(TraceTrees)

NextTraces ==
    \/ CreateExporter("traces")
    \/ \E o \in Orders(exp.headers), out \in EncodeOutcomes : PushDirect(o, out)

SpecTraces == InitTraces /\ [][NextTraces]_vars

\* every span of the tree, resource groups first, then scopes, then spans
RECURSIVE Concat(_)
Concat(seqs) == IF seqs = <<>> THEN <<>> ELSE Head(seqs) \o Concat(Tail(seqs))

AllSpans(td) == Concat([i \in 1..Len(td) |-> Concat(td[i])])

PushedTraces == call.op = "push" /\ draft = "endpoints" /\ call.res.sent

\* C8: sample_names holds the first min(10, total) span names in traversal
\* order, and "spans" is the span count of the whole tree.
C8_SampleNames ==
    PushedTraces =>
        LET all == AllSpans(call.tree)
            p   == call.res.req.body[2].traces
        IN  /\ Len(p.sample_names) = Min(10, Len(all))
            /\ \A i \in 1..Len(p.sample_names) : p.sample_names[i] = all[i]
            /\ p.spans = Len(all)

\* more than 10 spans, the cap falling inside the second resource group
C8_Witness ==
    /\ PushedTraces
    /\ Len(AllSpans(call.tree)) > 10
    /\ Len(call.tree) = 2
    /\ Len(call.res.req.body[2].traces.sample_names) = 10
    /\ call.res.req.body[2].traces.sample_names[10][1] = 2
(***************************************************************************)
(* Metrics: one resource group with every attribute list and every scope   *)
(* list within the bounds.  An attribute's value names the attribute it    *)
(* belongs to; a data point's value is its place in the series.            *)
(***************************************************************************)
MaxAttrs == 2

MaxPoints == 2

AttrKeys == {"service.name", "service", "host.name"}

StrValue(x) == [type |-> "str", v |-> x]

\* attribute lists with distinct keys, as a pcommon.Map holds them
AttrLists(keys, n) ==
    {[i \in DOMAIN ks |-> [k |-> ks[i], v |-> StrValue(ks[i])]] :
        ks \in {q \in SeqsUpTo(keys, n) :
                   \A i, j \in DOMAIN q : i # j => q[i] # q[j]}}

Timestamps == {100, 200}

DataPoints(tss) ==
    [k \in DOMAIN tss |->
        [ts |-> tss[k], vtype |-> IF k % 2 = 1 THEN "int" ELSE "double",
         val |-> k]]

MetricSet ==
    {[name |-> n, type |-> t, dps |-> DataPoints(tss)] :
        n \in {"m1", "m2"}, t \in {"gauge", "sum", "histogram"},
        tss \in SeqsUpTo(Timestamps, MaxPoints)}

MetricTrees ==
    {<<[attrs |-> a, scopes |-> sc]>> :
        a \in AttrLists(AttrKeys, MaxAttrs),
        sc \in SeqsUpTo(SeqsUpTo(MetricSet, 1), 2)}

InitMetrics == InitEncode(MetricTrees)

NextMetrics ==
    \/ CreateExporter("metrics")
    \/ \E o \in Orders(exp.headers), out \in EncodeOutcomes : PushDirect(o, out)

SpecMetrics == InitMetrics /\ [][NextMetrics]_vars

PushedMetrics == call.op = "push" /\ draft = "endpoints" /\ call.res.sent

MaxTs(dps) == CHOOSE t \in {dps[k].ts : k \in DOMAIN dps} :
                 \A k \in DOMAIN dps : dps[k].ts <= t

\* the metrics of a resource group, scope after scope
MetricsOf(rm) == Concat(rm.scopes)

\* C6 (as claimed): a gauge or sum series with data points (its name used
\* by no other series of the resource group) is emitted with the value of
\* its data point of greatest timestamp, whatever the order of its points.
C6_GreatestTimestamp ==
    PushedMetrics =>
        \A i \in DOMAIN call.tree :
            LET ms  == MetricsOf(call.tree[i])
                out == call.res.req.body[2].metrics[i].values
            IN  \A k \in DOMAIN ms :
                    (/\ ms[k].type \in {"gauge", "sum"}
                     /\ ms[k].dps # <<>>
                     /\ \A k2 \in DOMAIN ms : ms[k2].name = ms[k].name => k2 = k)
                    => /\ ms[k].name \in DOMAIN out
                       /\ \E p \in DOMAIN ms[k].dps :
                             /\ ms[k].dps[p].ts = MaxTs(ms[k].dps)
                             /\ out[ms[k].name] = numberValue(ms[k].dps[p])

RenamedKey(k) ==
    CASE k = "service.name"           -> "service"
      [] k = "deployment.environment" -> "environment"
      [] k = "cloud.region"           -> "region"
      [] OTHER                        -> k

\* C10 (as claimed): every resource attribute is in "properties" with its
\* own value, the well-known ones under their short key and the others
\* under their own key; none is lost or overwritten by another.
C10_NoAttributeLost ==
    PushedMetrics =>
        \A i \in DOMAIN call.tree :
            LET attrs == call.tree[i].attrs
                props == call.res.req.body[2].metrics[i].properties
            IN  \A a \in DOMAIN attrs :
                    /\ RenamedKey(attrs[a].k) \in DOMAIN props
                    /\ props[RenamedKey(attrs[a].k)] =
                          [kind |-> "string", val |-> attrs[a].v.v]
(***************************************************************************)
(* Transport alone: every header configuration within the bounds, every    *)
(* map iteration order, every outcome of the request.                      *)
(***************************************************************************)
MaxHeaders == 2

HeaderNames == {"Content-Type", "content-type", "Accept", "X-Api-Key"}

HeaderValues == {JSON, "text/plain"}

HeaderConfigs ==
    UNION {[ks -> HeaderValues] :
              ks \in {q \in SUBSET HeaderNames : Cardinality(q) <= MaxHeaders}}

InitPost ==
    /\ draft \in Drafts
    /\ cfg \in {[DefaultConfig(draft) EXCEPT !.Headers = h] : h \in HeaderConfigs}
    /\ signal = "none"
    /\ exp = NoExporter
    /\ items = <<>>
    /\ call = Pending(<<>>)

NextPost ==
    \/ \E s \in Signals : CreateExporter(s)
    \/ \E o \in Orders(exp.headers), out \in Outcomes : PushDirect(o, out)

SpecPost == InitPost /\ [][NextPost]_vars

Posted == call.op = "push"

\* C5: a POST returns nil exactly when a response arrived with a status in
\* [200,300); every other outcome is an error, and never one marked
\* permanent for the retry helper.
C5_SuccessIff2xx ==
    Posted =>
        /\ ~call.res.err <=>
              (/\ call.outcome.kind = "status"
               /\ call.outcome.code \in 200..299)
        /\ ~call.res.permanent

C5_Witness ==
    /\ Posted
    /\ call.outcome = Status(300)
    /\ call.res.sent /\ call.res.err /\ ~call.res.permanent

\* header names are case-insensitive: the configured names that are name n
SameName(n) == {k \in DOMAIN cfg.Headers : Canon(k) = Canon(n)}

\* C7 (as claimed): a request of doPOST carries every configured header
\* with its configured value, also under a name that differs from a
\* default's only by case, and the defaults for the names not configured,
\* whatever the order of the map's iteration.  (A configuration naming one
\* header twice with two values is left out: it has no configured value.)
C7_ConfiguredWins ==
    (/\ Posted /\ call.res.sent /\ draft = "endpoints"
     /\ \A k \in DOMAIN cfg.Headers :
           \A k2 \in SameName(k) : cfg.Headers[k2] = cfg.Headers[k])
    => LET h == call.res.req.headers
       IN  /\ \A k \in DOMAIN cfg.Headers :
                 Canon(k) \in DOMAIN h /\ h[Canon(k)] = cfg.Headers[k]
           /\ \A n \in {"Content-Type", "Accept"} :
                 SameName(n) = {} => (n \in DOMAIN h /\ h[n] = JSON)
(***************************************************************************)
(* Delivery: the pipeline a factory function builds.  push<Signal> is      *)
(* wrapped by the collector's exporterhelper with a sending queue and a    *)
(* retry sender: part_001 takes the default settings of both, the second   *)
(* draft those of its configuration (RetryEnabled is                       *)
(* cfg.RetrySettings.Enabled).  A delivery item is                         *)
(*   none -> Queued -> InFlight -> Delivered | Retry | Dropped,            *)
(*   Retry -> InFlight.                                                    *)
(* Time is in seconds.  The time an item has spent is known only within    *)
(* [elo, ehi]: a request takes between 0 and RequestTimeout, a backoff     *)
(* between half and one and a half times the current interval.             *)
(***************************************************************************)
MaxItems == 1

InitialInterval == 5

MaxInterval == 30

MaxElapsedTime == 300

RequestTimeout == 5

\* the interval grows by the multiplier 1.5 up to MaxInterval
NextInterval(iv) == Min(MaxInterval, (iv * 3) \div 2)

Script == <<503, 503, 200>>

NoItem ==
    [st |-> "none", attempts |-> 0, posts |-> 0, reqs |-> {},
     elo |-> 0, ehi |-> 0, interval |-> InitialInterval, scenario |-> 0]

\* the tree of a delivery item: one resource group, one scope, one item
SampleTree(s) ==
    CASE s = "traces"  -> <<<< <<"span">> >>>>
      [] s = "metrics" ->
            <<[attrs |-> <<[k |-> "service.name", v |-> StrValue("svc")]>>,
               scopes |-> <<<<[name |-> "m1", type |-> "gauge",
                               dps |-> DataPoints(<<100>>)]>>>>]>>
      [] s = "logs"    ->
            <<[attrs |-> <<[k |-> "service.name", v |-> StrValue("svc")]>>,
               scopes |-> <<<<[ts |-> 100, severity |-> "INFO",
                               body |-> StrValue("msg"), attrs |-> <<>>]>>>>]>>

\* how far the responses an item has met follow Script (-1: they do not)
Follow(sc, outcome) ==
    IF sc \in 0..(Len(Script) - 1)
       /\ outcome.kind = "status" /\ outcome.code = Script[sc + 1]
    THEN sc + 1
    ELSE IF sc = Len(Script) THEN sc ELSE -1

\* the retry sender gives up when the time spent exceeds MaxElapsedTime
MayRetry(lo) == lo <= MaxElapsedTime

MayGiveUp(hi) == hi > MaxElapsedTime

\* the items the helper may hand to push<Signal>
CanSend_AlsoFinished(it) == it.st \in {"InFlight", "Delivered", "Dropped"}

CanSend(it) == it.st = "InFlight"

\* the host hands a batch to the pipeline, which queues it
Enqueue(i) ==
    /\ exp.status = "ok"
    /\ items[i].st = "none"
    /\ \A j \in 1..(i - 1) : items[j].st # "none"
    /\ items' = [items EXCEPT ![i].st = "Queued"]
    /\ UNCHANGED <<draft, cfg, signal, exp, call>>

\* a queue consumer takes the item
Dequeue(i) ==
    /\ items[i].st = "Queued"
    /\ items' = [items EXCEPT ![i].st = "InFlight"]
    /\ UNCHANGED <<draft, cfg, signal, exp, call>>

\* the item after one call of push<Signal> that returned res
AfterPush(it, res, outcome, giveUp) ==
    LET lo  == it.elo
        hi  == it.ehi + (IF res.sent THEN RequestTimeout ELSE 0)
        met == [it EXCEPT !.attempts = @ + 1,
                          !.posts = IF res.sent THEN @ + 1 ELSE @,
                          !.reqs = IF res.sent
                                   THEN @ \cup {[url |-> res.req.url,
                                                 body |-> res.req.body]}
                                   ELSE @,
                          !.scenario = IF res.sent THEN Follow(@, outcome)
                                       ELSE @]
    IN  IF ~res.err THEN [met EXCEPT !.st = "Delivered"]
        ELSE IF res.permanent \/ ~cfg.RetryEnabled
                \/ (giveUp /\ MayGiveUp(hi)) \/ ~MayRetry(lo)
        THEN [met EXCEPT !.st = "Dropped"]
        ELSE [met EXCEPT !.st = "Retry",
                         !.elo = lo + (it.interval - it.interval \div 2),
                         !.ehi = hi + (it.interval + it.interval \div 2),
                         !.interval = NextInterval(it.interval)]

\* one delivery attempt: push<Signal> is called and the helper acts on what
\* it returns
Send(i, order, outcome, giveUp) ==
    /\ exp.status = "ok"
    /\ CanSend(items[i])
    /\ LET res == Push(draft, exp, signal, SampleTree(signal), order, outcome)
       IN  /\ items' = [items EXCEPT ![i] = AfterPush(@, res, outcome, giveUp)]
           /\ call' = [op |-> "push", tree |-> SampleTree(signal),
                       outcome |-> outcome, res |-> res]
    /\ UNCHANGED <<draft, cfg, signal, exp>>

\* the backoff of a retried item is over
RetryDue(i) ==
    /\ items[i].st = "Retry"
    /\ items' = [items EXCEPT ![i].st = "InFlight"]
    /\ UNCHANGED <<draft, cfg, signal, exp, call>>

DeliveryOutcomes == {Status(200), Status(503), NetErr}

URLChoices == {<<>>, <<"h">>}

DeliveryConfigs(d) ==
    IF d = "endpoints"
    THEN {DefaultConfig(d),
          [DefaultConfig(d) EXCEPT !.Endpoint = <<>>,
                                   !.TracesEndpoint = <<"h">>],
          [DefaultConfig(d) EXCEPT !.Endpoint = <<>>,
                                   !.TracesEndpoint = <<"h">>,
                                   !.MetricsEndpoint = <<"h">>,
                                   !.LogsEndpoint = <<"h">>]}
    ELSE {[DefaultConfig(d) EXCEPT !.TracesEndpoint = t,
                                   !.MetricsEndpoint = m,
                                   !.LogsEndpoint = l,
                                   !.RetryEnabled = r] :
             t \in URLChoices, m \in URLChoices, l \in URLChoices,
             r \in BOOLEAN}

Init ==
    /\ draft \in Drafts
    /\ cfg \in DeliveryConfigs(draft)
    /\ signal = "none"
    /\ exp = NoExporter
    /\ items = [i \in 1..MaxItems |-> NoItem]
    /\ call = NoCall

Next ==
    \/ \E s \in Signals : CreateExporter(s)
    \/ \E i \in 1..MaxItems : Enqueue(i)
    \/ \E i \in 1..MaxItems : Dequeue(i)
    \/ \E i \in 1..MaxItems, o \in Orders(exp.headers),
          out \in DeliveryOutcomes, g \in BOOLEAN : Send(i, o, out, g)
    \/ \E i \in 1..MaxItems : RetryDue(i)

Spec == Init /\ [][Next]_vars

Built == exp.status = "ok"

\* C3: under the default retry settings, an item whose POSTs are answered
\* 503, 503, 200 is put back for a retry by each 503 (neither delivered nor
\* dropped) and is Delivered by the 200, after exactly 3 attempts, each a
\* POST of the same payload to the same URL; no fourth attempt follows.
C3_DeliveredAfterThree ==
    (Built /\ cfg.RetryEnabled) =>
        \A i \in 1..MaxItems :
            LET it == items[i]
            IN  /\ it.scenario \in {1, 2} =>
                      /\ it.st \in {"Retry", "InFlight"}
                      /\ it.attempts = it.scenario /\ it.posts = it.scenario
                /\ it.scenario = 3 =>
                      /\ it.st = "Delivered"
                      /\ it.attempts = 3 /\ it.posts = 3
                      /\ Cardinality(it.reqs) = 1
                      /\ \A r \in it.reqs : r.url = URLOf(exp, signal)

C3_Witness ==
    \E i \in 1..MaxItems :
        /\ draft = "endpoints"
        /\ items[i].scenario = 3 /\ items[i].st = "Delivered"
        /\ items[i].attempts = 3

C9_AbsentSignalSkipped ==
    (Built /\ \E s \in Signals : Absent(URLOf(exp, s))) =>
        \A i \in 1..MaxItems :
            LET it == items[i]
            IN  IF Absent(URLOf(exp, signal))
                THEN /\ it.posts = 0 /\ it.reqs = {}
                     /\ it.st \notin {"Retry", "Dropped"}
                     /\ it.attempts <= 1
                     /\ it.attempts = 1 => it.st = "Delivered"
                ELSE /\ it.posts = it.attempts
                     /\ \A r \in it.reqs : r.url = URLOf(exp, signal)

C9_Witness ==
    \E i \in 1..MaxItems :
        /\ Built /\ Absent(URLOf(exp, signal))
        /\ \E s \in Signals : ~Absent(URLOf(exp, s))
        /\ items[i].st = "Delivered" /\ items[i].attempts = 1
        /\ items[i].posts = 0
        /\ call.op = "push" /\ ~call.res.sent /\ ~call.res.err

(***************************************************************************)
(* Logs: every tree shape within the bounds.  A record's timestamp tells   *)
(* its place <<resource, scope, record>>; its body is a string, a slice, a *)
(* map or the empty value by its place in the scope.  The resource groups  *)
(* carry the same attributes, or attributes of their own (the third none). *)
(***************************************************************************)
MaxRecords == 2

\* up to MaxGroups resource groups of up to two scopes each
LogShapes == SeqsUpTo(SeqsUpTo(0..MaxRecords, 2), MaxGroups)

ResourceKinds == {"same", "own"}

LogBody(k) ==
    CASE k % 4 = 1 -> StrValue("x")
      [] k % 4 = 2 -> [type |-> "slice",
                       v |-> <<[type |-> "bool", v |-> TRUE],
                               [type |-> "int", v |-> k]>>]
      [] k % 4 = 3 -> [type |-> "map",
                       v |-> <<[k |-> "a", v |-> [type |-> "int", v |-> 1]],
                               [k |-> "b", v |-> StrValue("x")]>>]
      [] OTHER     -> [type |-> "empty", v |-> <<>>]

LogRecord(i, j, k) ==
    [ts |-> 100 * i + 10 * j + k,
     severity |-> IF k % 2 = 1 THEN "INFO" ELSE "",
     body |-> LogBody(k),
     attrs |-> IF k % 2 = 1 THEN <<[k |-> "n", v |-> [type |-> "int", v |-> k]]>>
               ELSE <<>>]

ResourceAttrs(kind, i) ==
    CASE kind = "same" -> <<[k |-> "service.name", v |-> StrValue("svc")]>>
      [] kind = "own"  ->
            CASE i % 3 = 1 -> <<[k |-> "service.name", v |-> StrValue("svc")],
                                [k |-> "host.name", v |-> StrValue("first")]>>
              [] i % 3 = 2 -> <<[k |-> "service.name", v |-> StrValue("other")]>>
              [] OTHER     -> <<>>

LogTree(shape, kind) ==
    [i \in 1..Len(shape) |->
        [attrs |-> ResourceAttrs(kind, i),
         scopes |-> [j \in 1..Len(shape[i]) |->
                        [k \in 1..shape[i][j] |-> LogRecord(i, j, k)]]]]

LogTrees == {LogTree(sh, kind) : sh \in LogShapes, kind \in ResourceKinds}

InitLogs == InitEncode(LogTrees)

NextLogs ==
    \/ CreateExporter("logs")
    \/ \E o \in Orders(exp.headers), out \in EncodeOutcomes : PushDirect(o, out)

SpecLogs == InitLogs /\ [][NextLogs]_vars

PushedLogs == call.op = "push" /\ draft = "endpoints" /\ call.res.sent

\* every record of the tree with the number of its resource group, resource
\* groups first, then scopes, then records
AllLogs(ld) ==
    Concat([i \in 1..Len(ld) |->
               LET lrs == Concat(ld[i].scopes)
               IN  [n \in 1..Len(lrs) |-> [group |-> i, lr |-> lrs[n]]]])

\* an attribute list (distinct keys) as the map of its converted values
AttrMapOf(attrs) ==
    [key \in {attrs[n].k : n \in DOMAIN attrs} |->
        valueToIface(attrs[CHOOSE n \in DOMAIN attrs : attrs[n].k = key].v)]

\* C11: pushLogs emits one record per log item, in traversal order, each
\* with its own timestamp, severity text, converted body and attributes and
\* with the attributes of the resource group that encloses it.
C11_LogRecords ==
    PushedLogs =>
        LET all  == AllLogs(call.tree)
            recs == call.res.req.body[2].logs
        IN  /\ Len(recs) = Len(all)
            /\ \A n \in 1..Len(all) :
                  /\ recs[n].timestamp = all[n].lr.ts
                  /\ recs[n].severity = all[n].lr.severity
                  /\ recs[n].body = valueToIface(all[n].lr.body)
                  /\ recs[n].attrs = AttrMapOf(all[n].lr.attrs)
                  /\ recs[n].resource = AttrMapOf(call.tree[all[n].group].attrs)

\* two resource groups with attributes of their own, the first with two
\* records in one scope and records in a second scope, the second with a
\* record too
C11_Witness ==
    /\ PushedLogs
    /\ Len(call.tree) = 2
    /\ call.tree[1].attrs # call.tree[2].attrs
    /\ Len(call.tree[1].scopes) = 2
    /\ Len(call.tree[1].scopes[1]) = 2
    /\ Len(call.tree[1].scopes[2]) >= 1
    /\ Len(Concat(call.tree[2].scopes)) >= 1
    /\ Len(call.res.req.body[2].logs) >= 4

(***************************************************************************)
(* The exporter shared by the deliveries of its signal: the pipeline of    *)
(* Spec over the default endpoints of the draft, with no configured        *)
(* header, a header of its own, and a header that differs from a default   *)
(* one only by the case of its name.                                       *)
(***************************************************************************)
SharedHeaders ==
    {EmptyMap,
     [k \in {"X-Api-Key"} |-> "text/plain"],
     [k \in {"content-type"} |-> "text/plain"],
     [k \in {"Content-Type", "content-type"} |->
         IF k = "Content-Type" THEN JSON ELSE "text/plain"]}

InitShared ==
    /\ draft \in Drafts
    /\ cfg \in {[DefaultConfig(draft) EXCEPT !.Headers = h] : h \in SharedHeaders}
    /\ signal = "none"
    /\ exp = NoExporter
    /\ items = [i \in 1..MaxItems |-> NoItem]
    /\ call = NoCall

SpecShared == InitShared /\ [][Next]_vars

\* a request went out in the last call of push<Signal>
Requested(c) == c.op = "push" /\ c.res.sent

\* C12 (as claimed): once the exporter is built no step changes its three
\* URLs or its header map, and a request goes to the same URL with the same
\* headers as the request before it.
C12_SameURLSameHeaders ==
    [][/\ Built => exp' = exp
       /\ (Requested(call) /\ Requested(call'))
            => /\ call'.res.req.url = call.res.req.url
               /\ call'.res.req.headers = call.res.req.headers]_vars
====
